---------------------------- MODULE Spec2Model ----------------------------
(***************************************************************************)
(* Model of src/updater/components.py: the Component / Config (ledger)     *)
(* classes of the version updater.                                         *)
(*                                                                         *)
(* Text (version tags, rendered tags, file contents) is a sequence of      *)
(* one-character strings, so that concatenation, counting and replacing    *)
(* are computed as Python's str computes them.  Python's None is the value *)
(* None below, which is no text (its only element is not a character).     *)
(***************************************************************************)
EXTENDS Integers, Sequences, FiniteSets, TLC

VARIABLES
    components,   \* Config.components: sequence of component records
    fs,           \* the files under base_dir: path -> text
    last,         \* the last call made and what it returned / raised
    config,       \* Config.test_command (is one set) and Config.git_commit
    status,       \* Config.status: the journal
    now,          \* the clock maya.now() reads
    config_file,  \* the content of the ledger file, Config.config_file
    git,          \* the repository: content at HEAD, and the commits made
    run,          \* the position of a running Config.update_files
    log           \* what the running Config.update_files did, in order

vars == <<components, fs, last, config, status, now, config_file, git, run, log>>

None == <<"<None>">>

(***************************************************************************)
(* Text helpers                                                            *)
(***************************************************************************)
Digits == <<"0", "1", "2", "3", "4", "5", "6", "7", "8", "9">>

Letters == <<"a", "b", "c", "d", "e", "f", "g", "h", "i", "j", "k", "l", "m",
             "n", "o", "p", "q", "r", "s", "t", "u", "v", "w", "x", "y", "z">>

IsDigit(ch) == \E d \in 1..Len(Digits) : Digits[d] = ch

DigitValue(ch) == (CHOOSE d \in 1..Len(Digits) : Digits[d] = ch) - 1

LetterRank(ch) ==
    IF \E d \in 1..Len(Letters) : Letters[d] = ch
    THEN CHOOSE d \in 1..Len(Letters) : Letters[d] = ch
    ELSE 0

InSeq(x, s) == \E i \in 1..Len(s) : s[i] = x

RECURSIVE BoundedSeq(_, _)
BoundedSeq(S, n) ==
    IF n = 0 THEN {<<>>}
    ELSE LET shorter == BoundedSeq(S, n - 1)
         IN  shorter \cup {Append(s, x) : s \in {t \in shorter : Len(t) = n - 1}, x \in S}

\* s.split(".")
RECURSIVE SplitDots(_)
SplitDots(s) ==
    IF ~InSeq(".", s) THEN <<s>>
    ELSE LET k == CHOOSE i \in 1..Len(s) : s[i] = "." /\ \A j \in 1..(i - 1) : s[j] # "."
         IN  <<SubSeq(s, 1, k - 1)>> \o SplitDots(SubSeq(s, k + 1, Len(s)))

IsNumeric(s) == Len(s) > 0 /\ \A i \in 1..Len(s) : IsDigit(s[i])

\* int(s) of a run of decimal digits
RECURSIVE ToInt(_)
ToInt(s) ==
    IF Len(s) = 0 THEN 0
    ELSE 10 * ToInt(SubSeq(s, 1, Len(s) - 1)) + DigitValue(s[Len(s)])

\* str(n) of a natural number
RECURSIVE IntToStr(_)
IntToStr(n) ==
    IF n < 10 THEN <<Digits[n + 1]>>
    ELSE IntToStr(n \div 10) \o <<Digits[(n % 10) + 1]>>

\* lexicographic order of two tuples of integers, as Python compares tuples
RECURSIVE TupleLess(_, _)
TupleLess(a, b) ==
    IF Len(b) = 0 THEN FALSE
    ELSE IF Len(a) = 0 THEN TRUE
    ELSE IF a[1] # b[1] THEN a[1] < b[1]
    ELSE TupleLess(Tail(a), Tail(b))

(***************************************************************************)
(* packaging.version.parse (src/updater/components.py:2), on the tags the  *)
(* model uses: an optional "v" and dot-separated decimal numbers give a    *)
(* Version holding the release tuple; any other text gives a LegacyVersion *)
(* holding the text, which orders below every Version.                     *)
(***************************************************************************)
StripV(s) == IF Len(s) > 0 /\ s[1] = "v" THEN Tail(s) ELSE s

IsRelease(s) ==
    LET segs == SplitDots(StripV(s))
    IN  \A i \in 1..Len(segs) : IsNumeric(segs[i])

parse(s) ==
    IF IsRelease(s)
    THEN LET segs == SplitDots(StripV(s))
         IN  [legacy |-> FALSE,
              release |-> [i \in 1..Len(segs) |-> ToInt(segs[i])],
              text |-> <<>>]
    ELSE [legacy |-> TRUE, release |-> <<>>, text |-> s]

\* str(version): the canonical text of a Version, the original text of a
\* LegacyVersion
RECURSIVE JoinRelease(_)
JoinRelease(r) ==
    IF Len(r) = 0 THEN <<>>
    ELSE IF Len(r) = 1 THEN IntToStr(r[1])
    ELSE IntToStr(r[1]) \o <<".">> \o JoinRelease(Tail(r))

VersionStr(v) == IF v.legacy THEN v.text ELSE JoinRelease(v.release)

\* Version._key compares the release with its trailing zeros dropped
RECURSIVE StripZeros(_)
StripZeros(r) ==
    IF Len(r) > 0 /\ r[Len(r)] = 0 THEN StripZeros(SubSeq(r, 1, Len(r) - 1)) ELSE r

LegacyKey(v) == [i \in 1..Len(v.text) |-> LetterRank(v.text[i])]

\* a < b
VersionLess(a, b) ==
    IF a.legacy /\ b.legacy THEN TupleLess(LegacyKey(a), LegacyKey(b))
    ELSE IF a.legacy THEN TRUE
    ELSE IF b.legacy THEN FALSE
    ELSE TupleLess(StripZeros(a.release), StripZeros(b.release))

\* a == b
VersionEq(a, b) == ~VersionLess(a, b) /\ ~VersionLess(b, a)

\* max that returns the last element of the list
PyMax_Last(vs) == vs[Len(vs)]

\* max(list): the first of the largest elements
RECURSIVE PyMax(_)
PyMax(vs) ==
    IF Len(vs) = 1 THEN vs[1]
    ELSE LET m == PyMax(SubSeq(vs, 1, Len(vs) - 1))
         IN  IF VersionLess(m, vs[Len(vs)]) THEN vs[Len(vs)] ELSE m

(***************************************************************************)
(* Component                                                               *)
(***************************************************************************)
PREFIX_DEFAULT == None

FILTER_DEFAULT == "/.*/"

FILES_DEFAULT == None

EXLUDE_VERSIONS_DEFAULT == <<>>

REPO_DEFAULT == None

LATEST_TAGS == {<<"l", "a", "t", "e", "s", "t">>}

\* A filter that admits exactly the tags made of three dot-separated numbers.
\* It is anchored at both ends, so searching for it and matching the whole
\* tag against it agree.
FILTER_SEMVER == "/^\\d+\\.\\d+\\.\\d+$/"

\* tag == rex(filter), for the filters the model uses
RexMatch(tag, filter) ==
    CASE filter = FILTER_DEFAULT -> TRUE
      [] filter = FILTER_SEMVER ->
            LET segs == SplitDots(tag)
            IN  Len(segs) = 3 /\ \A i \in 1..3 : IsNumeric(segs[i])
      [] OTHER -> FALSE

\* Component.__init__, with the component_type (and repo_name) the two
\* subclasses set
NewComponent(type, repo, name, tag) ==
    [component_type      |-> type,
     repo_name           |-> repo,
     component_name      |-> name,
     current_version_tag |-> tag,
     current_version     |-> parse(tag),
     version_tags        |-> <<>>,
     next_version        |-> parse(tag),
     next_version_tag    |-> tag,
     prefix              |-> PREFIX_DEFAULT,
     filter              |-> FILTER_DEFAULT,
     files               |-> FILES_DEFAULT,
     exclude_versions    |-> EXLUDE_VERSIONS_DEFAULT]

newer_version_exists(c) ==
    IF c.current_version_tag \in LATEST_TAGS
    THEN FALSE
    ELSE VersionLess(c.current_version, c.next_version)

\* the tags of version_tags that pass the filter and are not excluded
Admitted(c, tags) ==
    LET keep(tag) == RexMatch(tag, c.filter) /\ ~InSeq(tag, c.exclude_versions)
    IN  SelectSeq(tags, keep)

\* check without the test for a floating tag: it fetches for every component
check_NoFreeze(c, tags) ==
    LET fetched  == [c EXCEPT !.version_tags = tags]
        admitted == Admitted(c, tags)
        parsed   == [i \in 1..Len(admitted) |-> parse(admitted[i])]
    IN  IF Len(parsed) = 0
        THEN [comp |-> fetched, ret |-> FALSE, err |-> "ValueError", fetched |-> TRUE]
        ELSE LET next == PyMax(parsed)
                 prefix == IF fetched.prefix = None THEN <<>> ELSE fetched.prefix
                 done == [fetched EXCEPT !.next_version = next,
                                         !.next_version_tag = prefix \o VersionStr(next)]
             IN  [comp |-> done, ret |-> newer_version_exists(done),
                  err |-> "none", fetched |-> TRUE]

\* check with max(..., default=current_version): no admitted tag is no error
check_KeepOnEmpty(c, tags) ==
    IF c.current_version_tag \notin LATEST_TAGS
    THEN LET fetched  == [c EXCEPT !.version_tags = tags]
             admitted == Admitted(c, tags)
             parsed   == [i \in 1..Len(admitted) |-> parse(admitted[i])]
             next     == IF Len(parsed) = 0 THEN c.current_version ELSE PyMax(parsed)
             prefix   == IF fetched.prefix = None THEN <<>> ELSE fetched.prefix
             done     == [fetched EXCEPT !.next_version = next,
                                         !.next_version_tag = prefix \o VersionStr(next)]
         IN  [comp |-> done, ret |-> newer_version_exists(done),
              err |-> "none", fetched |-> TRUE]
    ELSE [comp |-> c, ret |-> newer_version_exists(c), err |-> "none", fetched |-> FALSE]

\* Component.check, when fetch_versions would return tags: the component
\* after the call, what it returned or raised, and whether it fetched
check(c, tags) ==
    IF c.current_version_tag \notin LATEST_TAGS
    THEN LET fetched  == [c EXCEPT !.version_tags = tags]
             admitted == Admitted(c, tags)
             parsed   == [i \in 1..Len(admitted) |-> parse(admitted[i])]
         IN  IF Len(parsed) = 0
             THEN [comp |-> fetched, ret |-> FALSE, err |-> "ValueError", fetched |-> TRUE]
             ELSE LET next == PyMax(parsed)
                      prefix == IF fetched.prefix = None THEN <<>> ELSE fetched.prefix
                      done == [fetched EXCEPT !.next_version = next,
                                              !.next_version_tag = prefix \o VersionStr(next)]
                  IN  [comp |-> done, ret |-> newer_version_exists(done),
                       err |-> "none", fetched |-> TRUE]
    ELSE [comp |-> c, ret |-> newer_version_exists(c), err |-> "none", fetched |-> FALSE]

\* DockerImageComponent.name_version_tag / PypiComponent.name_version_tag
name_version_tag(c, version_tag) ==
    IF c.component_type = "docker-image"
    THEN c.component_name \o <<":">> \o version_tag
    ELSE c.component_name \o <<"=", "=">> \o version_tag

\* str.count: the occurrences found scanning left to right, each search
\* resuming after the end of the previous occurrence
RECURSIVE StrCount(_, _)
StrCount(s, sub) ==
    IF Len(s) < Len(sub) THEN 0
    ELSE IF SubSeq(s, 1, Len(sub)) = sub
         THEN 1 + StrCount(SubSeq(s, Len(sub) + 1, Len(s)), sub)
         ELSE StrCount(Tail(s), sub)

\* str.replace: every occurrence str.count counts is replaced
RECURSIVE StrReplace(_, _, _)
StrReplace(s, old, new) ==
    IF Len(s) < Len(old) THEN s
    ELSE IF SubSeq(s, 1, Len(old)) = old
         THEN new \o StrReplace(SubSeq(s, Len(old) + 1, Len(s)), old, new)
         ELSE <<s[1]>> \o StrReplace(Tail(s), old, new)

count_occurence(c, string_to_search) ==
    StrCount(string_to_search, name_version_tag(c, c.current_version_tag))

\* replace with its two arguments exchanged: the next tag is looked for
replace_Reversed(c, string_to_replace) ==
    StrReplace(string_to_replace,
               name_version_tag(c, c.next_version_tag),
               name_version_tag(c, c.current_version_tag))

replace(c, string_to_replace) ==
    StrReplace(string_to_replace,
               name_version_tag(c, c.current_version_tag),
               name_version_tag(c, c.next_version_tag))

\* the loop of update_files without the assertion that the text changed: a
\* file in which nothing was replaced is written back as it is and counted
RECURSIVE UpdateFrom_NoNoopCheck(_, _, _, _, _)
UpdateFrom_NoNoopCheck(c, files, k, dry_run, counter) ==
    IF k > Len(c.files)
    THEN [fs |-> files, counter |-> counter, err |-> "none", at |-> 0]
    ELSE LET file_name    == c.files[k]
             orig_content == files[file_name]
             new_content  == replace(c, orig_content)
         IN  IF count_occurence(c, orig_content) > 1
             THEN [fs |-> files, counter |-> counter, err |-> "ambiguity", at |-> k]
             ELSE IF dry_run
             THEN UpdateFrom_NoNoopCheck(c, files, k + 1, dry_run, counter + 1)
             ELSE UpdateFrom_NoNoopCheck(c, [files EXCEPT ![file_name] = new_content],
                                         k + 1, dry_run, counter + 1)

\* the loop of Component.update_files from the k-th file on: the files after
\* the call, the counter, and the error raised ("none" when it returns) with
\* the position of the file it was raised on
RECURSIVE UpdateFrom(_, _, _, _, _)
UpdateFrom(c, files, k, dry_run, counter) ==
    IF k > Len(c.files)
    THEN [fs |-> files, counter |-> counter, err |-> "none", at |-> 0]
    ELSE LET file_name    == c.files[k]
             orig_content == files[file_name]
             new_content  == replace(c, orig_content)
         IN  IF count_occurence(c, orig_content) > 1
             THEN [fs |-> files, counter |-> counter, err |-> "ambiguity", at |-> k]
             ELSE IF dry_run
             THEN UpdateFrom(c, files, k + 1, dry_run, counter + 1)
             ELSE IF new_content = orig_content
             THEN [fs |-> files, counter |-> counter, err |-> "noop", at |-> k]
             ELSE UpdateFrom(c, [files EXCEPT ![file_name] = new_content],
                             k + 1, dry_run, counter + 1)

\* update_files that writes the files in a dry run as well
Component_update_files_WetDryRun(c, files, dry_run) ==
    IF c.files = None
    THEN [fs |-> files, counter |-> 0, err |-> "TypeError", at |-> 0]
    ELSE UpdateFrom(c, files, 1, FALSE, 0)

\* update_files that writes no file unless the loop gets through all of them
Component_update_files_AllOrNothing(c, files, dry_run) ==
    IF c.files = None
    THEN [fs |-> files, counter |-> 0, err |-> "TypeError", at |-> 0]
    ELSE LET r == UpdateFrom(c, files, 1, dry_run, 0)
         IN  IF r.err = "none" THEN r ELSE [r EXCEPT !.fs = files]

\* Component.update_files; iterating over files = None raises TypeError
Component_update_files(c, files, dry_run) ==
    IF c.files = None
    THEN [fs |-> files, counter |-> 0, err |-> "TypeError", at |-> 0]
    ELSE UpdateFrom(c, files, 1, dry_run, 0)

(***************************************************************************)
(* Config                                                                  *)
(***************************************************************************)
STATE_FILES_UPDATED == "STATE_FILES_UPDATED"

STATE_TEST_RUN == "STATE_TEST_RUN"

STATE_CONFIG_SAVED == "STATE_CONFIG_SAVED"

STATE_COMMITED_CHANGES == "STATE_COMMITED_CHANGES"

EmptyMap == [k \in {} |-> k]

\* the key update_status writes under: the text "component.component_name"
StatusKey ==
    <<"c", "o", "m", "p", "o", "n", "e", "n", "t", ".",
      "c", "o", "m", "p", "o", "n", "e", "n", "t", "_", "n", "a", "m", "e">>

\* d[key] = value on a dict
SetItem(d, key, value) ==
    [k \in DOMAIN d \cup {key} |-> IF k = key THEN value ELSE d[k]]

\* Config.update_status at time t: the journal after the call
update_status(st, t, component, step) ==
    LET made == IF component.component_name \notin DOMAIN st
                THEN SetItem(st, StatusKey, EmptyMap)
                ELSE st
    IN  SetItem(made, StatusKey, SetItem(made[StatusKey], step, t))

\* a dict entry that is present only when cond holds
Entry(cond, key, value) == IF cond THEN key :> value ELSE EmptyMap

\* to_dict that leaves out the files and the excluded versions
to_dict_Short(c) ==
    (("component-type" :> c.component_type)
        @@ ("current-version" :> c.current_version_tag)
        @@ ("next-version" :> c.next_version_tag))
    @@ Entry(c.prefix # PREFIX_DEFAULT, "prefix", c.prefix)
    @@ Entry(c.filter # FILTER_DEFAULT, "filter", c.filter)
    @@ Entry(c.component_type = "docker-image", "docker-repo", c.repo_name)

\* Component.to_dict and DockerImageComponent.to_dict
to_dict(c) ==
    (("component-type" :> c.component_type)
        @@ ("current-version" :> c.current_version_tag)
        @@ ("next-version" :> c.next_version_tag))
    @@ Entry(c.prefix # PREFIX_DEFAULT, "prefix", c.prefix)
    @@ Entry(c.filter # FILTER_DEFAULT, "filter", c.filter)
    @@ Entry(c.files # FILES_DEFAULT, "files", c.files)
    @@ Entry(c.exclude_versions # EXLUDE_VERSIONS_DEFAULT,
             "exclude-versions", c.exclude_versions)
    @@ Entry(c.component_type = "docker-image", "docker-repo", c.repo_name)

\* Config.components_to_dict: a later component replaces an earlier one of
\* the same name
components_to_dict(comps) ==
    [name \in {comps[i].component_name : i \in 1..Len(comps)} |->
        LET i == CHOOSE i \in 1..Len(comps) :
                    /\ comps[i].component_name = name
                    /\ \A j \in (i + 1)..Len(comps) : comps[j].component_name # name
        IN  to_dict(comps[i])]

\* ord(ch) of a digit or a lower-case letter
Ord(ch) == IF IsDigit(ch) THEN 48 + DigitValue(ch) ELSE 96 + LetterRank(ch)

\* a < b on str
TextLess(a, b) ==
    TupleLess([i \in 1..Len(a) |-> Ord(a[i])], [i \in 1..Len(b) |-> Ord(b[i])])

\* the keys of a mapping in the order yaml.dump writes them, which sorts
\* them, and so the order in which yaml.safe_load gives them back
RECURSIVE SortedKeys(_)
SortedKeys(S) ==
    IF S = {} THEN <<>>
    ELSE LET m == CHOOSE x \in S : \A y \in S \ {x} : TextLess(x, y)
         IN  <<m>> \o SortedKeys(S \ {m})

\* dict.get(key, default)
Get(d, key, default) == IF key \in DOMAIN d THEN d[key] ELSE default

\* ComponentFactory.get: PypiComponent ignores repo_name
factory_get(component_type, component_name, current_version_tag, repo_name) ==
    IF component_type = "docker-image"
    THEN NewComponent("docker-image", repo_name, component_name, current_version_tag)
    ELSE NewComponent("pypi", REPO_DEFAULT, component_name, current_version_tag)

\* the component Config.read_from_yaml makes of one entry of the file
LoadComponent(component_name, comp) ==
    [factory_get(comp["component-type"], component_name, comp["current-version"],
                 Get(comp, "docker-repo", REPO_DEFAULT))
        EXCEPT !.repo_name        = Get(comp, "docker-repo", REPO_DEFAULT),
               !.prefix           = Get(comp, "prefix", PREFIX_DEFAULT),
               !.filter           = Get(comp, "filter", FILTER_DEFAULT),
               !.files            = Get(comp, "files", FILES_DEFAULT),
               !.exclude_versions = Get(comp, "exclude-versions", EXLUDE_VERSIONS_DEFAULT)]

\* Config.read_from_yaml of a file Config.save_to_yaml wrote (file is the
\* mapping written; a file that does not exist reads as the empty mapping):
\* Config.components after the call
read_from_yaml(file) ==
    LET names == SortedKeys(DOMAIN file)
    IN  [n \in 1..Len(names) |-> LoadComponent(names[n], file[names[n]])]

Range(s) == {s[k] : k \in 1..Len(s)}

\* the name of the ledger file, Config.config_file.name
LedgerName == "components.yaml"

\* git diff --name-only: the tracked paths whose content differs from HEAD
GitDiffNames(files, ledger, repo) ==
    {f \in DOMAIN files : files[f] # repo.head[f]}
        \cup (IF ledger # repo.ledger THEN {LedgerName} ELSE {})

\* updater.git_check on the return code of a git command
git_check(retcode) == IF retcode = 0 THEN "none" ELSE "git"

\* git add of the paths in staged, then git commit: the return code (1 when
\* nothing staged differs from HEAD) and the repository after it
GitAddCommit(staged, message, files, ledger, repo) ==
    IF staged \cap GitDiffNames(files, ledger, repo) = {}
    THEN [retcode |-> 1, repo |-> repo]
    ELSE [retcode |-> 0,
          repo |-> [head |-> [f \in DOMAIN files |->
                                 IF f \in staged THEN files[f] ELSE repo.head[f]],
                    ledger |-> ledger,
                    commits |-> Append(repo.commits,
                                       [message |-> message, paths |-> staged])]]

\* commit_changes without the assertion on the changed files
commit_changes_Unverified(component, dry_run, files, ledger, repo) ==
    LET changed_files == GitDiffNames(files, ledger, repo)
    IN  IF component.files = None
        THEN [err |-> "TypeError", changed |-> changed_files, staged |-> {}, repo |-> repo]
        ELSE IF dry_run
        THEN [err |-> "none", changed |-> changed_files, staged |-> {}, repo |-> repo]
        ELSE LET staged == {LedgerName} \cup Range(component.files)
                 r == GitAddCommit(staged, component.component_name, files, ledger, repo)
             IN  [err |-> git_check(r.retcode), changed |-> changed_files,
                  staged |-> staged, repo |-> r.repo]

\* Config.commit_changes: the error raised ("none" when it returns), the
\* changed files git reported, the paths staged, and the repository after it
commit_changes(component, dry_run, files, ledger, repo) ==
    LET changed_files == GitDiffNames(files, ledger, repo)
    IN  IF component.files = None
        THEN [err |-> "TypeError", changed |-> changed_files, staged |-> {}, repo |-> repo]
        ELSE IF ~(Range(component.files) \subseteq changed_files)
        THEN [err |-> "git_consistency", changed |-> changed_files, staged |-> {},
              repo |-> repo]
        ELSE IF dry_run
        THEN [err |-> "none", changed |-> changed_files, staged |-> {}, repo |-> repo]
        ELSE LET staged == {LedgerName} \cup Range(component.files)
                 r == GitAddCommit(staged, component.component_name, files, ledger, repo)
             IN  [err |-> git_check(r.retcode), changed |-> changed_files,
                  staged |-> staged, repo |-> r.repo]

\* Config.__init__: no test command, commit enabled, an empty journal
ConfigInit ==
    /\ config = [test_command |-> FALSE, git_commit |-> TRUE]
    /\ status = EmptyMap
    /\ now = 0

Idle == [pc |-> "idle", i |-> 0, dry_run |-> FALSE, counter |-> 0, err |-> "none",
         start |-> <<>>]

(***************************************************************************)
(* The texts the model draws its inputs from                               *)
(***************************************************************************)
T110 == <<"1", ".", "1", ".", "0">>

T120 == <<"1", ".", "2", ".", "0">>

T130 == <<"1", ".", "3", ".", "0">>

V130 == <<"v">> \o T130

LATEST == <<"l", "a", "t", "e", "s", "t">>

\* the version tags a registry or package index may publish
Tags == {T110, T120, T130, V130, LATEST}

\* the longest list of tags a fetch returns
MaxTags == 2

\* what the fetcher returns: nothing, an older version, a newer version
Fetches == {<<>>, <<T110>>, <<T130>>}

FileNames == {"req", "df"}

\* the record of the last call: the operation, the component it was made on
\* (its position and its fields before the call, but for the list of tags of
\* the fetch before, which nothing reads), the inputs, and the outcome
Called(op, i, pre, tags, dry_run, pre_fs, ret, err, fetched, at) ==
    [op |-> op, comp |-> i, pre |-> [pre EXCEPT !.version_tags = <<>>],
     tags |-> tags, dry_run |-> dry_run,
     pre_fs |-> pre_fs, ret |-> ret, err |-> err, fetched |-> fetched, at |-> at]

(***************************************************************************)
(* SpecCheck: Component.check on one component, for every list of tags the *)
(* fetcher may return                                                      *)
(***************************************************************************)
CheckComponents ==
    {[NewComponent("pypi", None, <<"w">>, tag)
        EXCEPT !.prefix = prefix, !.filter = filter, !.exclude_versions = exclude] :
        tag \in {T120, LATEST},
        prefix \in {PREFIX_DEFAULT, <<"v">>},
        filter \in {FILTER_DEFAULT, FILTER_SEMVER},
        exclude \in {EXLUDE_VERSIONS_DEFAULT, <<T130>>}}

\* no call made yet
NoCall ==
    Called("none", 0, NewComponent("pypi", None, <<"w">>, T120),
           <<>>, FALSE, [f \in FileNames |-> <<>>], FALSE, "none", FALSE, 0)

\* a repository whose HEAD holds the files and the ledger as they are
CleanTree ==
    /\ config_file = components_to_dict(components)
    /\ git = [head |-> fs, ledger |-> config_file, commits |-> <<>>]

InitCheck ==
    /\ components \in {<<c>> : c \in CheckComponents}
    /\ fs = [f \in FileNames |-> <<>>]
    /\ last = NoCall
    /\ ConfigInit
    /\ CleanTree
    /\ run = Idle
    /\ log = <<>>

\* components[i].check(), the fetcher returning tags
CheckCall(i, tags) ==
    LET r == check(components[i], tags)
    IN  /\ components' = [components EXCEPT ![i] = r.comp]
        /\ last' = Called("check", i, components[i], tags, FALSE, fs,
                          r.ret, r.err, r.fetched, 0)
        /\ run.pc = "idle"
        /\ UNCHANGED <<fs, config, status, now, config_file, git, run, log>>

NextCheck ==
    \E i \in 1..Len(components), tags \in BoundedSeq(Tags, MaxTags) : CheckCall(i, tags)

SpecCheck == InitCheck /\ [][NextCheck]_vars

(***************************************************************************)
(* SpecFiles: Component.update_files on one component, for every list of   *)
(* target files and every content of them                                  *)
(***************************************************************************)
ACME == <<"a", "c", "m", "e">>

APP == <<"a", "p", "p">>

\* the longest list of target files of a component
MaxFiles == 2

\* a pypi package and a docker image at 1.2.0 for which 1.3.0 is published,
\* and a docker image "1" at tag 1, whose rendered tag "1:1" ends as it
\* begins, for which 2 is published
FileBases ==
    {[base |-> NewComponent("pypi", None, <<"w">>, T120), tags |-> <<T130>>],
     [base |-> NewComponent("docker-image", ACME, APP, T120), tags |-> <<T130>>],
     [base |-> NewComponent("docker-image", ACME, <<"1">>, <<"1">>), tags |-> <<<<"2">>>>]}

\* each of them before a check and after one that found the newer version
FileComponents ==
    {[c EXCEPT !.files = files] :
        c \in {b.base : b \in FileBases} \cup {check(b.base, b.tags).comp : b \in FileBases},
        files \in BoundedSeq(FileNames, MaxFiles) \cup {FILES_DEFAULT}}

\* the texts in which the occurrences of r overlap
Overlaps(r) ==
    {r \o SubSeq(r, b + 1, Len(r)) :
        b \in {n \in 1..(Len(r) - 1) : SubSeq(r, 1, n) = SubSeq(r, Len(r) - n + 1, Len(r))}}

\* file contents holding the rendered current tag of c not at all, once,
\* twice, and in overlapping occurrences
Contents(c) ==
    LET r == name_version_tag(c, c.current_version_tag)
    IN  {<<"#">>, <<"#", " ">> \o r \o <<" ">>, r \o <<" ">> \o r} \cup Overlaps(r)

InitFiles ==
    /\ components \in {<<c>> : c \in FileComponents}
    /\ fs \in [FileNames -> Contents(components[1])]
    /\ last = NoCall
    /\ ConfigInit
    /\ CleanTree
    /\ run = Idle
    /\ log = <<>>

\* components[i].update_files(base_dir, dry_run)
UpdateFilesCall(i, dry_run) ==
    LET r == Component_update_files(components[i], fs, dry_run)
    IN  /\ run.pc = "idle"
        /\ fs' = r.fs
        /\ last' = Called("update_files", i, components[i], <<>>, dry_run, fs,
                          r.counter, r.err, FALSE, r.at)
        /\ UNCHANGED <<components, config, status, now, config_file, git, run, log>>

NextFiles ==
    \E i \in 1..Len(components), dry_run \in BOOLEAN : UpdateFilesCall(i, dry_run)

SpecFiles == InitFiles /\ [][NextFiles]_vars

(***************************************************************************)
(* SpecLedger: a ledger built with Config.add, checked, saved with         *)
(* Config.save_config and loaded with Config.read_from_yaml                *)
(***************************************************************************)
\* the most components a ledger holds
MaxComponents == 2

\* components with every field at its default and with none at it, with an
\* empty list of files, an image, and an image at a floating tag
LedgerComponents ==
    {NewComponent("pypi", None, <<"w">>, T120),
     [NewComponent("pypi", None, <<"w">>, T120)
         EXCEPT !.prefix = <<"v">>, !.filter = FILTER_SEMVER,
                !.files = <<"req", "df">>, !.exclude_versions = <<T130>>],
     [NewComponent("pypi", None, <<"e">>, T110) EXCEPT !.files = <<>>],
     [NewComponent("docker-image", ACME, APP, T120) EXCEPT !.files = <<"df">>],
     NewComponent("docker-image", ACME, <<"d", "b">>, LATEST)}

\* no two components of the ledger have the same name
UniqueNames(comps) ==
    \A i, j \in 1..Len(comps) : comps[i].component_name = comps[j].component_name => i = j

\* the record of a save_config or read_from_yaml call: the ledger and the
\* file before it
LedgerCalled(op, dry_run) ==
    [op |-> op, comp |-> 0, pre |-> NoCall.pre, tags |-> <<>>, dry_run |-> dry_run,
     pre_fs |-> fs, ret |-> FALSE, err |-> "none", fetched |-> FALSE, at |-> 0,
     before |-> components, file |-> config_file]

\* a Config on a ledger file that does not exist yet, its components added
\* one by one
InitLedger ==
    /\ components \in {l \in BoundedSeq(LedgerComponents, MaxComponents) : UniqueNames(l)}
    /\ fs = [f \in FileNames |-> <<>>]
    /\ last = NoCall
    /\ ConfigInit
    /\ config_file = EmptyMap
    /\ git = [head |-> fs, ledger |-> config_file, commits |-> <<>>]
    /\ run = Idle
    /\ log = <<>>

\* Config.save_config(dry_run=dry_run)
SaveConfig(dry_run) ==
    /\ run.pc = "idle"
    /\ config_file' = IF dry_run THEN config_file ELSE components_to_dict(components)
    /\ last' = LedgerCalled("save_config", dry_run)
    /\ UNCHANGED <<components, fs, config, status, now, git, run, log>>

\* Config.read_from_yaml()
ReadFromYaml ==
    /\ run.pc = "idle"
    /\ components' = read_from_yaml(config_file)
    /\ last' = LedgerCalled("read_from_yaml", FALSE)
    /\ UNCHANGED <<fs, config, status, now, config_file, git, run, log>>

NextLedger ==
    \/ \E i \in 1..Len(components), tags \in Fetches : CheckCall(i, tags)
    \/ \E dry_run \in BOOLEAN : SaveConfig(dry_run)
    \/ ReadFromYaml

SpecLedger == InitLedger /\ [][NextLedger]_vars

(***************************************************************************)
(* Spec: a ledger of components, checks of them, and Config.update_files   *)
(* run step by step                                                        *)
(***************************************************************************)
WithFiles(c, files) == [c EXCEPT !.files = files]

W == WithFiles(NewComponent("pypi", None, <<"w">>, T120), <<"req">>)

A == WithFiles(NewComponent("docker-image", ACME, APP, T120), <<"df">>)

L == WithFiles(NewComponent("docker-image", ACME, <<"d", "b">>, LATEST), <<"df">>)

N == NewComponent("pypi", None, <<"n">>, T120)

E == WithFiles(NewComponent("pypi", None, <<"e">>, T120), <<>>)

\* the ledgers: a package, a package and an image, a frozen image first, a
\* package without target files (the default, and an empty list) after and
\* before a component with some
Ledgers == {<<W>>, <<W, A>>, <<L, W>>, <<W, N>>, <<N, A>>, <<E, W>>}

Init ==
    /\ components \in Ledgers
    /\ fs \in {[f \in FileNames |-> IF f = "req" THEN x ELSE y] :
                  x \in Contents(W), y \in Contents(A)}
    /\ last = NoCall
    /\ ConfigInit
    /\ config_file = components_to_dict(components)
    /\ \E dirty \in {{}, FileNames} :
           git = [head |-> [f \in FileNames |-> IF f \in dirty THEN <<>> ELSE fs[f]],
                  ledger |-> config_file, commits |-> <<>>]
    /\ run = Idle
    /\ log = <<>>

Ev(ev, i, arg) == [ev |-> ev, comp |-> i, arg |-> arg]

\* an error that is caught in the loop, which goes on with the next component
Failed_Continue(err) ==
    [run EXCEPT !.err = err,
                !.pc = IF run.i < Len(components) THEN "files" ELSE "failed",
                !.i = IF run.i < Len(components) THEN run.i + 1 ELSE run.i]

\* an exception leaves Config.update_files: the run is over
Failed(err) == [run EXCEPT !.pc = "failed", !.err = err]

\* the settings the command line puts on the Config, then
\* Config.update_files(base_dir, dry_run) up to its loop
StartUpdate(dry_run, test_command, git_commit) ==
    /\ run.pc = "idle"
    /\ config' = [test_command |-> test_command, git_commit |-> git_commit]
    /\ run' = [pc |-> "files", i |-> 1, dry_run |-> dry_run, counter |-> 0,
               err |-> "none", start |-> components]
    /\ last' = NoCall
    /\ log' = <<>>
    /\ UNCHANGED <<components, fs, status, now, config_file, git>>

\* lines 140-142: the files of the component, then the journal
StepFiles ==
    /\ run.pc = "files"
    /\ LET c == components[run.i]
           r == IF newer_version_exists(c)
                THEN Component_update_files(c, fs, run.dry_run)
                ELSE [fs |-> fs, counter |-> 0, err |-> "none", at |-> 0]
           written == IF run.dry_run \/ ~newer_version_exists(c) \/ c.files = None
                      THEN <<>>
                      ELSE SubSeq(c.files, 1, r.counter)
       IN  /\ fs' = r.fs
           /\ IF r.err # "none"
              THEN /\ run' = Failed(r.err)
                   /\ log' = Append(log, Ev("update_files", run.i, written))
                   /\ UNCHANGED <<status, now>>
              ELSE /\ run' = [run EXCEPT !.pc = "tests", !.counter = @ + r.counter]
                   /\ status' = update_status(status, now, c, STATE_FILES_UPDATED)
                   /\ now' = now + 1
                   /\ log' = log \o <<Ev("update_files", run.i, written),
                                     Ev("status", run.i, STATE_FILES_UPDATED)>>
    /\ UNCHANGED <<components, last, config, config_file, git>>

\* run_tests without the assertion on the return code
StepTests_Unasserted(returncode) ==
    /\ run.pc = "tests"
    /\ IF ~config.test_command
       THEN /\ returncode = 0
            /\ run' = [run EXCEPT !.pc = "save"]
            /\ UNCHANGED <<status, now, log>>
       ELSE /\ run' = [run EXCEPT !.pc = "save"]
            /\ status' = update_status(status, now, components[run.i], STATE_TEST_RUN)
            /\ now' = now + 1
            /\ log' = log \o <<[ev |-> "test", comp |-> run.i, arg |-> returncode],
                              [ev |-> "status", comp |-> run.i, arg |-> STATE_TEST_RUN]>>
    /\ UNCHANGED <<components, fs, last, config, config_file, git>>

\* lines 143-145: the test command, returning returncode, then the journal
StepTests(returncode) ==
    /\ run.pc = "tests"
    /\ IF ~config.test_command
       THEN /\ returncode = 0
            /\ run' = [run EXCEPT !.pc = "save"]
            /\ UNCHANGED <<status, now, log>>
       ELSE IF returncode # 0
       THEN /\ run' = Failed("test")
            /\ log' = Append(log, Ev("test", run.i, returncode))
            /\ UNCHANGED <<status, now>>
       ELSE /\ run' = [run EXCEPT !.pc = "save"]
            /\ status' = update_status(status, now, components[run.i], STATE_TEST_RUN)
            /\ now' = now + 1
            /\ log' = log \o <<Ev("test", run.i, returncode),
                              Ev("status", run.i, STATE_TEST_RUN)>>
    /\ UNCHANGED <<components, fs, last, config, config_file, git>>

\* lines 147-153 without the tests for a dry run
StepSave_Always ==
    /\ run.pc = "save"
    /\ LET c == components[run.i]
       IN  /\ components' = [components EXCEPT
                                 ![run.i].current_version = c.next_version,
                                 ![run.i].current_version_tag = c.next_version_tag]
           /\ config_file' = components_to_dict(components')
           /\ status' = update_status(status, now, c, STATE_CONFIG_SAVED)
           /\ now' = now + 1
           /\ log' = log \o <<Ev("advance", run.i, c.next_version_tag),
                               Ev("save", run.i, LedgerName),
                               Ev("status", run.i, STATE_CONFIG_SAVED)>>
    /\ run' = [run EXCEPT !.pc = "commit"]
    /\ UNCHANGED <<fs, last, config, git>>

\* lines 147-153: the current version, the ledger file, then the journal
StepSave ==
    /\ run.pc = "save"
    /\ LET c == components[run.i]
       IN  /\ components' =
                  IF run.dry_run THEN components
                  ELSE [components EXCEPT
                            ![run.i].current_version = c.next_version,
                            ![run.i].current_version_tag = c.next_version_tag]
           /\ config_file' =
                  IF run.dry_run THEN config_file ELSE components_to_dict(components')
           /\ status' = update_status(status, now, c, STATE_CONFIG_SAVED)
           /\ now' = now + 1
           /\ log' = log \o (IF run.dry_run THEN <<>>
                             ELSE <<Ev("advance", run.i, c.next_version_tag),
                                    Ev("save", run.i, LedgerName)>>)
                         \o <<Ev("status", run.i, STATE_CONFIG_SAVED)>>
    /\ run' = [run EXCEPT !.pc = "commit"]
    /\ UNCHANGED <<fs, last, config, git>>

\* the end of the loop body: the next component, or return counter
Continue == [run EXCEPT !.pc = IF run.i < Len(components) THEN "files" ELSE "done",
                        !.i = IF run.i < Len(components) THEN run.i + 1 ELSE run.i]

\* lines 155-157: the commit, then the journal
StepCommit ==
    /\ run.pc = "commit"
    /\ IF ~config.git_commit
       THEN /\ run' = Continue
            /\ UNCHANGED <<status, now, git, log>>
       ELSE LET c == components[run.i]
                r == commit_changes(c, run.dry_run, fs, config_file, git)
                did == <<Ev("diff", run.i, r.changed)>>
                       \o (IF r.staged # {} THEN <<Ev("stage", run.i, r.staged)>> ELSE <<>>)
                       \o (IF r.repo # git THEN <<Ev("commit", run.i, c.component_name)>>
                           ELSE <<>>)
            IN  /\ git' = r.repo
                /\ IF r.err # "none"
                   THEN /\ run' = Failed(r.err)
                        /\ log' = log \o did
                        /\ UNCHANGED <<status, now>>
                   ELSE /\ run' = Continue
                        /\ status' = update_status(status, now, c, STATE_COMMITED_CHANGES)
                        /\ now' = now + 1
                        /\ log' = log \o did \o <<Ev("status", run.i, STATE_COMMITED_CHANGES)>>
    /\ UNCHANGED <<components, fs, last, config, config_file>>

Next ==
    \/ \E i \in 1..Len(components), tags \in Fetches : CheckCall(i, tags)
    \/ \E dry_run \in BOOLEAN, test_command \in BOOLEAN, git_commit \in BOOLEAN :
           StartUpdate(dry_run, test_command, git_commit)
    \/ StepFiles
    \/ \E returncode \in {0, 1} : StepTests(returncode)
    \/ StepSave
    \/ StepCommit

Spec == Init /\ [][Next]_vars

(***************************************************************************)
(* Claims about Component.check (under SpecCheck)                          *)
(***************************************************************************)
Frozen(c) == c.current_version_tag \in LATEST_TAGS

\* the raw tag passes the filter and is not excluded
Passes(tag, c) == RexMatch(tag, c.filter) /\ \A k \in 1..Len(c.exclude_versions) : c.exclude_versions[k] # tag

CheckReturned == last.op = "check" /\ last.err = "none"

\* C3: after check() returns successfully, nextVersion >= currentVersion, and
\* newerVersionExists() is (nextVersion > currentVersion), or false when the
\* component is frozen.
C3_NextNotBelowCurrent ==
    CheckReturned =>
        LET c == components[last.comp]
        IN  /\ ~VersionLess(c.next_version, c.current_version)
            /\ last.ret = (IF Frozen(c) THEN FALSE
                           ELSE VersionLess(c.current_version, c.next_version))

\* C4: a fetched tag that does not pass the filter, or that is excluded, is
\* never the nextVersionTag check() leaves.
C4_FilteringExact ==
    (CheckReturned /\ last.fetched) =>
        \A k \in 1..Len(last.tags) :
            ~Passes(last.tags[k], last.pre) =>
                components[last.comp].next_version_tag # last.tags[k]

\* C5: check() on a frozen component returns false, does not fetch, and
\* leaves nextVersion and nextVersionTag as they were, whatever the fetcher
\* would have returned.
C5_FrozenCheckIsInert ==
    (last.op = "check" /\ Frozen(last.pre)) =>
        /\ last.err = "none"
        /\ last.ret = FALSE
        /\ ~last.fetched
        /\ components[last.comp].next_version = last.pre.next_version
        /\ components[last.comp].next_version_tag = last.pre.next_version_tag

C5_Witness ==
    /\ last.op = "check"
    /\ Frozen(last.pre)
    /\ InSeq(T130, last.tags)

\* C10: check() on a non-frozen component raises when no fetched tag passes
\* the filter and the exclusions (an empty fetch included), and nextVersion
\* and nextVersionTag keep the values they had.
C10_NoCandidateIsFatal ==
    (/\ last.op = "check"
     /\ ~Frozen(last.pre)
     /\ \A k \in 1..Len(last.tags) : ~Passes(last.tags[k], last.pre)) =>
        /\ last.err = "ValueError"
        /\ components[last.comp].next_version = last.pre.next_version
        /\ components[last.comp].next_version_tag = last.pre.next_version_tag

C10_Witness ==
    /\ last.op = "check"
    /\ last.err = "ValueError"
    /\ Len(last.tags) > 0
    /\ last.pre.next_version_tag # last.pre.current_version_tag

\* the versions of the fetched tags that pass the filter and the exclusions
Candidates ==
    {parse(last.tags[k]) : k \in {n \in 1..Len(last.tags) : Passes(last.tags[n], last.pre)}}

\* C16: check() on a non-frozen component for which some fetched tag passes
\* the filter and the exclusions returns, leaves as nextVersion a candidate
\* that no candidate is greater than, as nextVersionTag the prefix followed
\* by the string form of nextVersion, and returns true exactly when
\* nextVersion is greater than currentVersion, which it leaves as it was.
C16_NextIsMaxOfAdmitted ==
    (last.op = "check" /\ ~Frozen(last.pre) /\ Candidates # {}) =>
        LET c == components[last.comp]
            prefix == IF last.pre.prefix = None THEN <<>> ELSE last.pre.prefix
        IN  /\ last.err = "none"
            /\ c.next_version \in Candidates
            /\ \A v \in Candidates : ~VersionLess(c.next_version, v)
            /\ c.next_version_tag = prefix \o VersionStr(c.next_version)
            /\ last.ret = VersionLess(c.current_version, c.next_version)
            /\ c.current_version = last.pre.current_version
            /\ c.current_version_tag = last.pre.current_version_tag

\* current 1.2.0, the fetch returning 1.3.0 and then 1.1.0 to a component
\* with a prefix: next is 1.3.0, its tag v1.3.0, and the check returns true
C16_Witness ==
    /\ last.op = "check"
    /\ last.pre.current_version_tag = T120
    /\ last.pre.prefix = <<"v">>
    /\ last.tags = <<T130, T110>>
    /\ last.ret = TRUE
    /\ components[last.comp].next_version_tag = V130

(***************************************************************************)
(* Claims about Component.update_files (under SpecFiles)                   *)
(***************************************************************************)
\* the positions at which sub occurs in s
Positions(s, sub) ==
    {p \in 1..(Len(s) - Len(sub) + 1) : SubSeq(s, p, p + Len(sub) - 1) = sub}

\* s contains sub more than once
OccursTwice(s, sub) == Cardinality(Positions(s, sub)) > 1

UpdateFilesCalled == last.op = "update_files" /\ last.pre.files # None

RenderedCurrent == name_version_tag(last.pre, last.pre.current_version_tag)

\* C1 as stated: when a target file contains the rendered current tag more
\* than once, updateFiles fails (either assertion counted as the failure the
\* claim asks for) and the file is as it was, in dry-run and in non-dry-run
\* mode.
C1_AmbiguousNeverWritten ==
    UpdateFilesCalled =>
        \A k \in 1..Len(last.pre.files) :
            LET f == last.pre.files[k]
            IN  OccursTwice(last.pre_fs[f], RenderedCurrent) =>
                    last.err \in {"ambiguity", "noop"} /\ fs[f] = last.pre_fs[f]

\* C6: a dry-run updateFiles raises a fatal error exactly when the same call
\* in non-dry-run mode would raise one, and the same one.
C6_DryRunChecksTheSame ==
    UpdateFilesCalled =>
        last.err = Component_update_files(last.pre, last.pre_fs, ~last.dry_run).err

\* the k-th target file of the call is at no other position of the list, so
\* the loop found it as it was before the call
Once(k) ==
    \A m \in 1..Len(last.pre.files) : m # k => last.pre.files[m] # last.pre.files[k]

\* the loop of the call got to the k-th target file
Reached(k) == last.err = "none" \/ k <= last.at

\* the call raised err on the k-th target file
RaisedAt(k, err) == last.err = err /\ last.at = k

\* C11: in a non-dry-run updateFiles, a target file the loop gets to that
\* does not contain the rendered current tag makes the call fail with the
\* no-op error and is not written; the no-op error is raised only on a file
\* whose text the replacement leaves unchanged; and a file whose text the
\* replacement changes is, unless it fails the test for more than one
\* occurrence, written back with the replaced text.
C11_UnchangedIsFatalElseWritten ==
    (UpdateFilesCalled /\ ~last.dry_run) =>
        \A k \in 1..Len(last.pre.files) :
            LET f    == last.pre.files[k]
                orig == last.pre_fs[f]
                new  == StrReplace(orig, RenderedCurrent,
                                   name_version_tag(last.pre, last.pre.next_version_tag))
            IN  (Once(k) /\ Reached(k)) =>
                    /\ Positions(orig, RenderedCurrent) = {} =>
                           RaisedAt(k, "noop") /\ fs[f] = orig
                    /\ RaisedAt(k, "noop") => new = orig /\ fs[f] = orig
                    /\ (new # orig /\ ~RaisedAt(k, "ambiguity")) =>
                           last.at # k /\ fs[f] = new

\* a call that wrote its first file and failed on the second, which does not
\* hold the rendered current tag
C11_Witness ==
    /\ UpdateFilesCalled
    /\ ~last.dry_run
    /\ RaisedAt(2, "noop")
    /\ Once(1) /\ Once(2)
    /\ Positions(last.pre_fs[last.pre.files[2]], RenderedCurrent) = {}
    /\ fs[last.pre.files[1]] # last.pre_fs[last.pre.files[1]]

\* name:tag for a container image, name==version for a package-index entry
Rendered(c, tag) ==
    IF c.component_type = "docker-image"
    THEN c.component_name \o <<":">> \o tag
    ELSE c.component_name \o <<"=", "=">> \o tag

\* text with the occurrence of old at position p replaced by new
ReplacedAt(text, p, old, new) ==
    SubSeq(text, 1, p - 1) \o new \o SubSeq(text, p + Len(old), Len(text))

\* the k-th target file of a non-dry-run call, found as it was before the
\* call, holds the rendered current tag exactly once
HoldsOnce(k) ==
    /\ Once(k) /\ Reached(k)
    /\ Cardinality(Positions(last.pre_fs[last.pre.files[k]],
                             Rendered(last.pre, last.pre.current_version_tag))) = 1

\* the call did not fail on the k-th target file, which holds its old text
\* with the one occurrence of the rendered current tag replaced by the
\* rendered next tag
OneReplaced(k) ==
    LET f  == last.pre.files[k]
        rc == Rendered(last.pre, last.pre.current_version_tag)
        rn == Rendered(last.pre, last.pre.next_version_tag)
        p  == CHOOSE q \in Positions(last.pre_fs[f], rc) : TRUE
    IN  last.at # k /\ fs[f] = ReplacedAt(last.pre_fs[f], p, rc, rn)

\* C17 as stated: a target file that holds the rendered current tag exactly
\* once is, in a non-dry-run updateFiles, rewritten with that occurrence
\* replaced by the rendered next tag and nothing else changed, the call not
\* failing on it.
C17_SingleOccurrenceReplaced ==
    (UpdateFilesCalled /\ ~last.dry_run) =>
        \A k \in 1..Len(last.pre.files) : HoldsOnce(k) => OneReplaced(k)

\* C17 amended: as stated when the next tag differs from the current tag;
\* when the two are equal the call fails on the file with the no-op error
\* and leaves it as it was.
C17_SingleOccurrenceReplacedIfNewer ==
    (UpdateFilesCalled /\ ~last.dry_run) =>
        \A k \in 1..Len(last.pre.files) :
            HoldsOnce(k) =>
                IF last.pre.next_version_tag # last.pre.current_version_tag
                THEN OneReplaced(k)
                ELSE RaisedAt(k, "noop") /\ fs[last.pre.files[k]] = last.pre_fs[last.pre.files[k]]

\* app:1.2.0 replaced by app:1.3.0 in two files that each held it once
C17_Witness ==
    /\ UpdateFilesCalled
    /\ ~last.dry_run
    /\ last.err = "none"
    /\ last.pre.component_name = APP
    /\ last.pre.next_version_tag = T130
    /\ last.pre.files = <<"df", "req">>
    /\ HoldsOnce(1) /\ HoldsOnce(2)
    /\ fs["df"] = <<"#", " ">> \o APP \o <<":">> \o T130 \o <<" ">>

\* the target files before the k-th
FilesBefore(k) == Range(SubSeq(last.pre.files, 1, k - 1))

\* C20: when a non-dry-run updateFiles fails on its k-th file, the k - 1
\* files before it in the list were counted and are rewritten, holding the
\* rendered next tag, every other file (the k-th and the later ones) is as it
\* was, and the component keeps its currentVersionTag.
C20_FailureLeavesPrefixWritten ==
    (UpdateFilesCalled /\ ~last.dry_run /\ last.err # "none") =>
        LET k == last.at
        IN  /\ k \in 1..Len(last.pre.files)
            /\ last.ret = k - 1
            /\ \A f \in FileNames :
                   IF f \in FilesBefore(k)
                   THEN /\ fs[f] # last.pre_fs[f]
                        /\ Positions(fs[f], Rendered(last.pre, last.pre.next_version_tag)) # {}
                   ELSE fs[f] = last.pre_fs[f]
            /\ components[last.comp].current_version_tag = last.pre.current_version_tag
            /\ components[last.comp].current_version = last.pre.current_version

\* a call that rewrote its first file and failed on the second, which holds
\* the rendered current tag twice
C20_Witness ==
    /\ UpdateFilesCalled
    /\ ~last.dry_run
    /\ RaisedAt(2, "ambiguity")
    /\ last.pre.files[1] # last.pre.files[2]
    /\ fs[last.pre.files[1]] # last.pre_fs[last.pre.files[1]]
    /\ fs[last.pre.files[2]] = last.pre_fs[last.pre.files[2]]

\* C12: a dry-run updateFiles changes no file, a dry-run call that returns
\* returns the number of paths in the component's files, and a dry-run call
\* made after another has the outcome the one before had.
C12_DryRunIdempotent ==
    [][(last'.op = "update_files" /\ last'.dry_run) =>
           /\ fs' = fs
           /\ (last'.err = "none" /\ last'.pre.files # None) =>
                  last'.ret = Len(last'.pre.files)
           /\ (last.op = "update_files" /\ last.dry_run) =>
                  last'.ret = last.ret /\ last'.err = last.err]_vars

\* a dry run that returned over two files, one of them without the rendered
\* current tag
C12_Witness ==
    /\ UpdateFilesCalled
    /\ last.dry_run
    /\ last.err = "none"
    /\ last.ret = 2
    /\ last.pre_fs = fs
    /\ \E k \in 1..2 : Positions(fs[last.pre.files[k]], RenderedCurrent) = {}

(***************************************************************************)
(* Claims about Config.update_files (under Spec)                           *)
(***************************************************************************)
\* what the run did for the j-th component
HasEv(j, ev) == \E k \in 1..Len(log) : log[k].comp = j /\ log[k].ev = ev

Journaled(j, step) ==
    \E k \in 1..Len(log) : log[k].comp = j /\ log[k].ev = "status" /\ log[k].arg = step

NoEvent(j) == \A k \in 1..Len(log) : log[k].comp # j

\* the files the run wrote for the j-th component, in order
Written(j) ==
    IF HasEv(j, "update_files")
    THEN log[CHOOSE k \in 1..Len(log) : log[k].comp = j /\ log[k].ev = "update_files"].arg
    ELSE <<>>

Running == run.pc \in {"files", "tests", "save", "commit", "failed", "done"}

Ordinals == 1..Len(components)

\* the components the loop has left behind, and those it has not reached
Before == {j \in Ordinals : j < run.i \/ run.pc = "done"}

After == {j \in Ordinals : j > run.i}

\* the j-th component went through every step of the loop body
Completed(j) ==
    /\ HasEv(j, "update_files")
    /\ Journaled(j, STATE_FILES_UPDATED)
    /\ config.test_command => Journaled(j, STATE_TEST_RUN)
    /\ Journaled(j, STATE_CONFIG_SAVED)
    /\ config.git_commit => Journaled(j, STATE_COMMITED_CHANGES)

\* the steps of one component are not interleaved with those of another
Sequenced ==
    /\ \A k \in 1..(Len(log) - 1) : log[k].comp <= log[k + 1].comp
    /\ Running => (\A j \in Before : Completed(j)) /\ (\A j \in After : NoEvent(j))

\* every target file of the j-th component holds its rendered current tag
HoldsCurrent(j) ==
    LET c == components[j]
    IN  c.files # None =>
            \A f \in Range(c.files) :
                Positions(fs[f], name_version_tag(c, c.current_version_tag)) # {}

Persisted(j) ==
    /\ HasEv(j, "save")
    /\ config_file[components[j].component_name]["current-version"]
           = components[j].current_version_tag

Untouched(j) == NoEvent(j) /\ components[j] = run.start[j]

\* C2 as stated: the components are processed one after the other, and after
\* a fatal error on component i every component before i has its files
\* rewritten, currentVersionTag = nextVersionTag, the ledger persisted and a
\* commit made, and every component after i is untouched.
C2_BeforeCommittedAfterUntouched ==
    /\ Sequenced
    /\ run.pc = "failed" =>
           /\ \A j \in Before :
                  /\ Written(j) = components[j].files /\ HoldsCurrent(j)
                  /\ components[j].current_version_tag = components[j].next_version_tag
                  /\ Persisted(j)
                  /\ HasEv(j, "commit")
           /\ \A j \in After : Untouched(j)

\* C2 amended: the components are processed one after the other; after a
\* fatal error on component i every component after i is untouched, and in a
\* non-dry-run every component before i has currentVersionTag =
\* nextVersionTag and the ledger persisted with it, its files rewritten if it
\* had a newer version, and a commit made if commit is enabled.
C2_SequencedNoRollback ==
    /\ Sequenced
    /\ run.pc = "failed" => \A j \in After : Untouched(j)
    /\ (run.pc = "failed" /\ ~run.dry_run) =>
           \A j \in Before :
               /\ components[j].current_version_tag = components[j].next_version_tag
               /\ components[j].current_version = components[j].next_version
               /\ Persisted(j)
               /\ newer_version_exists(run.start[j]) =>
                      Written(j) = components[j].files /\ HoldsCurrent(j)
               /\ config.git_commit => HasEv(j, "commit")

C2_Witness ==
    /\ run.pc = "failed"
    /\ ~run.dry_run
    /\ config.git_commit
    /\ run.i = 2
    /\ newer_version_exists(run.start[1])
    /\ Written(2) # <<>>

AllSteps ==
    {STATE_FILES_UPDATED, STATE_TEST_RUN, STATE_CONFIG_SAVED, STATE_COMMITED_CHANGES}

\* C7: after a run that processed every component with a test command and
\* commit enabled, the journal holds under each component's own name the four
\* steps, recorded in the order FILES_UPDATED, TEST_RUN, CONFIG_SAVED,
\* COMMITTED_CHANGES (no call having removed a step recorded before).
C7_JournalPerComponent ==
    (run.pc = "done" /\ config.test_command /\ config.git_commit) =>
        \A j \in Ordinals :
            LET name == components[j].component_name
            IN  /\ name \in DOMAIN status
                /\ DOMAIN status[name] = AllSteps
                /\ status[name][STATE_FILES_UPDATED] < status[name][STATE_TEST_RUN]
                /\ status[name][STATE_TEST_RUN] < status[name][STATE_CONFIG_SAVED]
                /\ status[name][STATE_CONFIG_SAVED] < status[name][STATE_COMMITED_CHANGES]

\* C8: when the test command returns non-zero for component i the run is
\* over: TEST_RUN is not journaled for i, i keeps its current version and
\* tag, the ledger is not saved and nothing is staged or committed for i, no
\* later component is processed, and in a non-dry-run the files of i stay
\* rewritten.
C8_TestFailureAborts ==
    (\E k \in 1..Len(log) : log[k].ev = "test" /\ log[k].arg # 0) =>
        /\ run.pc = "failed"
        /\ log[Len(log)].ev = "test"
        /\ ~Journaled(run.i, STATE_TEST_RUN)
        /\ components[run.i] = run.start[run.i]
        /\ ~HasEv(run.i, "save")
        /\ config_file[components[run.i].component_name]["current-version"]
               = run.start[run.i].current_version_tag
        /\ ~HasEv(run.i, "diff") /\ ~HasEv(run.i, "stage") /\ ~HasEv(run.i, "commit")
        /\ \A j \in After : Untouched(j)
        /\ (~run.dry_run /\ newer_version_exists(components[run.i])) =>
               LET c == components[run.i]
               IN  /\ Written(run.i) = c.files
                   /\ \A f \in Range(c.files) :
                          Positions(fs[f], name_version_tag(c, c.next_version_tag)) # {}

C8_Witness ==
    /\ run.pc = "failed"
    /\ run.err = "test"
    /\ run.i = 2
    /\ ~run.dry_run
    /\ Written(2) # <<>>
    /\ HasEv(1, "commit")

\* the commits the repository holds are those the run made, in order
CommitsMade ==
    LET made == SelectSeq(log, LAMBDA e : e.ev = "commit")
        staged == SelectSeq(log, LAMBDA e : e.ev = "stage")
    IN  /\ Len(git.commits) = Len(made)
        /\ \A n \in 1..Len(made) :
               /\ git.commits[n].message = components[made[n].comp].component_name
               /\ \E m \in 1..Len(staged) :
                      staged[m].comp = made[n].comp /\ git.commits[n].paths = staged[m].arg

IsEv(k, ev, j) == log[k].ev = ev /\ log[k].comp = j

\* what follows git's report of the changed files, at position k of the log,
\* when it has to be followed by staging and a commit
VerifiedThenCommitted(k, mustCommit) ==
    LET j == log[k].comp
        c == components[j]
    IN  IF c.files # None /\ Range(c.files) \subseteq log[k].arg
        THEN IF mustCommit
             THEN /\ k + 2 <= Len(log)
                  /\ IsEv(k + 1, "stage", j)
                  /\ log[k + 1].arg = {LedgerName} \cup Range(c.files)
                  /\ IsEv(k + 2, "commit", j)
                  /\ log[k + 2].arg = c.component_name
             ELSE /\ k + 1 <= Len(log)
                  /\ log[k + 1].ev = "status"
        ELSE /\ k = Len(log)
             /\ run.pc = "failed"
             /\ run.i = j

\* nothing is staged or committed but right after a report of changed files
\* that holds every file of the component
OnlyAfterVerifying ==
    \A k \in 1..Len(log) :
        /\ log[k].ev = "stage" =>
               /\ k > 1
               /\ log[k - 1].ev = "diff" /\ log[k - 1].comp = log[k].comp
               /\ Range(components[log[k].comp].files) \subseteq log[k - 1].arg
        /\ log[k].ev = "commit" =>
               /\ k > 1
               /\ log[k - 1].ev = "stage" /\ log[k - 1].comp = log[k].comp

\* C9 as stated: with commit enabled a commit is made only after the files
\* of the component were found among the changed files; when one is missing
\* the run fails with nothing staged or committed, and when all are there the
\* ledger file and the files of the component, and nothing else, are staged
\* and the commit has the name of the component as its message.
C9_CommitOnlyVerified ==
    /\ OnlyAfterVerifying
    /\ CommitsMade
    /\ \A k \in 1..Len(log) : log[k].ev = "diff" => VerifiedThenCommitted(k, TRUE)

\* C9 amended: as stated for a non-dry-run in which something staged differs
\* from HEAD; a dry run verifies and then stages and commits nothing, and a
\* non-dry-run in which nothing staged differs from HEAD stages and then
\* fails without a commit.
C9_CommitOnlyVerifiedUnlessDry ==
    /\ OnlyAfterVerifying
    /\ CommitsMade
    /\ run.dry_run => ~(\E k \in 1..Len(log) : log[k].ev \in {"stage", "commit"})
    /\ \A k \in 1..Len(log) :
           log[k].ev = "diff" =>
               LET c == components[log[k].comp]
                   staged == {LedgerName} \cup Range(c.files)
               IN  IF ~run.dry_run /\ c.files = <<>> /\ LedgerName \notin log[k].arg
                   THEN /\ k + 1 = Len(log)
                        /\ IsEv(k + 1, "stage", log[k].comp)
                        /\ log[k + 1].arg = staged
                        /\ run.pc = "failed"
                   ELSE VerifiedThenCommitted(k, ~run.dry_run)

C9_Witness ==
    /\ Len(git.commits) = 2
    /\ \E k \in 1..Len(log) :
           /\ log[k].ev = "stage"
           /\ log[k].arg = {LedgerName, "df"}

\* the current version and tag of every component
Currents(comps) ==
    [j \in 1..Len(comps) |-> <<comps[j].current_version, comps[j].current_version_tag>>]

\* C13: a step of a dry-run updateAll leaves the current version and tag of
\* every component, every target file, the ledger file and the repository as
\* they are, and nothing is staged or committed, whatever the ledger and
\* however the run ends.
C13_DryRunFrame ==
    [][(run.dry_run /\ run.pc # "idle") =>
           /\ Currents(components') = Currents(components)
           /\ fs' = fs
           /\ config_file' = config_file
           /\ git' = git
           /\ \A k \in 1..Len(log') : log'[k].ev \notin {"advance", "save", "stage", "commit"}]_vars

\* a dry run that went through two components with a newer version, the
\* commit step enabled, to its end
C13_Witness ==
    /\ run.pc = "done"
    /\ run.dry_run
    /\ config.git_commit
    /\ run.counter = 2
    /\ \A j \in Ordinals : newer_version_exists(components[j])

\* C14: a component left with the default files takes part in check(), and
\* updateAll goes through it without a fatal error of its own (a failing
\* test command aside), a newer version and the commit step included,
\* touching and rewriting no file for it.
C14_NoFilesIsHarmless ==
    \A j \in Ordinals :
        components[j].files = FILES_DEFAULT =>
            /\ (last.op = "check" /\ last.comp = j) =>
                   last.err = check(WithFiles(last.pre, <<>>), last.tags).err
            /\ (run.pc = "failed" /\ run.i = j) => run.err = "test"
            /\ (Running /\ j \in Before) => Completed(j)
            /\ Running => Written(j) = <<>>

\* C18: in a run of updateAll no component's currentVersion goes below the
\* one it had when the run began, and a component that had no newer version
\* then keeps its currentVersionTag, in memory and in the ledger file.
C18_CurrentNeverDecreases ==
    Running =>
        \A j \in Ordinals :
            /\ ~VersionLess(components[j].current_version, run.start[j].current_version)
            /\ ~newer_version_exists(run.start[j]) =>
                   /\ components[j].current_version_tag = run.start[j].current_version_tag
                   /\ config_file[components[j].component_name]["current-version"]
                          = run.start[j].current_version_tag

\* C19: with commit enabled the changed files are asked of version control,
\* and a commit made, only for a component that had a newer version and
\* whose files this run rewrote; a component that had none causes no commit
\* and does not fail the test of its files against the changed files.
C19_CommitOnlyForUpdated ==
    (Running /\ config.git_commit) =>
        \A j \in Ordinals :
            /\ (HasEv(j, "diff") \/ HasEv(j, "stage") \/ HasEv(j, "commit")) =>
                   /\ newer_version_exists(run.start[j])
                   /\ ~run.dry_run => Written(j) = components[j].files
            /\ (run.pc = "failed" /\ run.i = j /\ ~newer_version_exists(run.start[j])) =>
                   run.err # "git_consistency"

(***************************************************************************)
(* Claims about saving and loading the ledger (under SpecLedger)           *)
(***************************************************************************)
\* read_from_yaml was called on the file save_config had made of the ledger
\* as it was
LoadedWhatWasSaved ==
    /\ last.op = "read_from_yaml"
    /\ last.file = components_to_dict(last.before)

\* the loaded component c has the persisted fields of the saved component b
SameFields(c, b) ==
    /\ c.component_name = b.component_name
    /\ c.component_type = b.component_type
    /\ c.current_version_tag = b.current_version_tag
    /\ c.prefix = b.prefix
    /\ c.filter = b.filter
    /\ c.files = b.files
    /\ c.exclude_versions = b.exclude_versions
    /\ b.component_type = "docker-image" => c.repo_name = b.repo_name

\* the entry saved for component b leaves out the fields at their default
DefaultsOmitted(b) ==
    LET entry == last.file[b.component_name]
    IN  /\ "prefix" \in DOMAIN entry <=> b.prefix # PREFIX_DEFAULT
        /\ "filter" \in DOMAIN entry <=> b.filter # FILTER_DEFAULT
        /\ "files" \in DOMAIN entry <=> b.files # FILES_DEFAULT
        /\ "exclude-versions" \in DOMAIN entry <=>
               b.exclude_versions # EXLUDE_VERSIONS_DEFAULT

\* C15 as stated: loading the ledger that was saved gives as many components,
\* each with the fields of the one saved at its position (so in the same
\* order), the fields at their default having been left out of the file.
C15_RoundTripInOrder ==
    LoadedWhatWasSaved =>
        /\ Len(components) = Len(last.before)
        /\ \A j \in 1..Len(last.before) :
               /\ j <= Len(components)
               /\ SameFields(components[j], last.before[j])
               /\ DefaultsOmitted(last.before[j])

\* C15 amended: loading the ledger that was saved gives as many components,
\* in ascending order of name, and each saved component is found among them
\* with the fields it had, the fields at their default having been left out
\* of the file.
C15_RoundTripByName ==
    LoadedWhatWasSaved =>
        /\ Len(components) = Len(last.before)
        /\ \A j \in 1..(Len(components) - 1) :
               TextLess(components[j].component_name, components[j + 1].component_name)
        /\ \A i \in 1..Len(last.before) :
               /\ \E j \in 1..Len(components) : SameFields(components[j], last.before[i])
               /\ DefaultsOmitted(last.before[i])

\* a ledger of two components that were not in order of name, one with no
\* field at its default, saved after a check and loaded
C15_Witness ==
    /\ LoadedWhatWasSaved
    /\ Len(last.before) = 2
    /\ last.before # components
    /\ TextLess(last.before[2].component_name, last.before[1].component_name)
    /\ \E i \in 1..2 :
           /\ last.before[i].prefix # PREFIX_DEFAULT
           /\ last.before[i].files # FILES_DEFAULT
           /\ last.before[i].next_version_tag # last.before[i].current_version_tag

====
